---------------------------- MODULE Spec2Model ----------------------------
(***************************************************************************)
(* Appointment scheduler: the normalization and guardrail pipeline of      *)
(* app/normalize_module.py and app/utils.py.                               *)
(*                                                                         *)
(* A Python str is a sequence of one-character strings, so that lower(),   *)
(* split(), the regular expressions and strptime are computed on the       *)
(* characters.  A datetime is the number of seconds since 00:00:00 of day  *)
(* 0, a Monday, on the Asia/Kolkata wall clock; a date is a day number.    *)
(* An Optional value is <<>> (None) or <<v>>.                              *)
(***************************************************************************)
EXTENDS Integers, Sequences, FiniteSets, TLC

VARIABLES
    clock,  \* the ambient wall clock read by datetime.now(KOLKATA)
    last,   \* the latest run of the pipeline: <<>> or <<observation>>
    prev,   \* the run before it (history, for comparing two calls)
    pc,     \* position of the harness that applies one function to arg
    arg,    \* the inputs handed to the function under test
    ret     \* what the function returned

vars == <<clock, last, prev, pc, arg, ret>>

----------------------------------------------------------------------------
(* Bounds and units *)

\* The clock takes the days 0..MaxDay; 6 covers every weekday.
MaxDay == 6

DaysPerWeek == 7

SecondsPerMinute == 60
SecondsPerHour == 60 * SecondsPerMinute
SecondsPerDay == 24 * SecondsPerHour

None == <<>>
Some(v) == <<v>>

\* datetime.date(), datetime.time(), datetime.weekday() (Monday is 0)
DateOf(dt) == dt \div SecondsPerDay
TimeOf(dt) == dt % SecondsPerDay
WeekdayOf(dt) == DateOf(dt) % DaysPerWeek

\* datetime + timedelta(days=n)
PlusDays(dt, n) == dt + n * SecondsPerDay

\* datetime.combine(date, time), localized to the one fixed zone
Combine(date, time) == date * SecondsPerDay + time

----------------------------------------------------------------------------
(* Strings *)

UpperLetters == <<"A", "B", "C", "D", "E", "F", "G", "H", "I", "J", "K", "L", "M", "N", "O", "P", "Q", "R", "S", "T", "U", "V", "W", "X", "Y", "Z">>
LowerLetters == <<"a", "b", "c", "d", "e", "f", "g", "h", "i", "j", "k", "l", "m", "n", "o", "p", "q", "r", "s", "t", "u", "v", "w", "x", "y", "z">>
Digits == <<"0", "1", "2", "3", "4", "5", "6", "7", "8", "9">>

IndexIn(c, s) == CHOOSE i \in 1..Len(s) : s[i] = c
Member(c, s) == \E i \in 1..Len(s) : s[i] = c

\* str.lower(), one character
LowerChar(c) == IF Member(c, UpperLetters) THEN LowerLetters[IndexIn(c, UpperLetters)] ELSE c
\* str.upper(), one character (used to write the inputs)
UpperChar(c) == IF Member(c, LowerLetters) THEN UpperLetters[IndexIn(c, LowerLetters)] ELSE c

\* str.lower()
Lower(s) == [i \in 1..Len(s) |-> LowerChar(s[i])]
Upper(s) == [i \in 1..Len(s) |-> UpperChar(s[i])]
Title(s) == [i \in 1..Len(s) |-> IF i = 1 THEN UpperChar(s[i]) ELSE LowerChar(s[i])]

IsSpace(c) == c \in {" ", "\t", "\n"}
IsDigit(c) == Member(c, Digits)
DigitVal(c) == IndexIn(c, Digits) - 1

\* str.split(): the maximal runs of non-whitespace characters
RECURSIVE SplitFrom(_, _, _)
SplitFrom(s, i, cur) ==
    IF i > Len(s) THEN (IF cur = <<>> THEN <<>> ELSE <<cur>>)
    ELSE IF IsSpace(s[i])
         THEN (IF cur = <<>> THEN SplitFrom(s, i + 1, <<>>)
                             ELSE <<cur>> \o SplitFrom(s, i + 1, <<>>))
         ELSE SplitFrom(s, i + 1, Append(cur, s[i]))
Split(s) == SplitFrom(s, 1, <<>>)

\* needle in s (Python's substring test)
Contains(s, needle) ==
    \E i \in 1..(Len(s) - Len(needle) + 1) : SubSeq(s, i, i + Len(needle) - 1) = needle

\* "if x:" on an Optional[str]: None and "" are falsy
Truthy(optstr) == optstr # None /\ optstr[1] # <<>>

----------------------------------------------------------------------------
(* _get_next_weekday and _parse_relative_day *)

\* calendar.day_name, lower-cased: the keys of `weekdays`, index i-1 is the weekday
day_name == << <<"m", "o", "n", "d", "a", "y">>, <<"t", "u", "e", "s", "d", "a", "y">>, <<"w", "e", "d", "n", "e", "s", "d", "a", "y">>, <<"t", "h", "u", "r", "s", "d", "a", "y">>,
               <<"f", "r", "i", "d", "a", "y">>, <<"s", "a", "t", "u", "r", "d", "a", "y">>, <<"s", "u", "n", "d", "a", "y">> >>
IsWeekdayName(w) == \E i \in 1..Len(day_name) : day_name[i] = w
weekdays(w) == (CHOOSE i \in 1..Len(day_name) : day_name[i] = w) - 1

\* Mutant: "<" for "<=", so that today's weekday resolves to today.
get_next_weekday_lt(current_date, weekday) ==
    LET days_ahead == weekday - WeekdayOf(current_date)
    IN  PlusDays(current_date, IF days_ahead < 0 THEN days_ahead + DaysPerWeek ELSE days_ahead)

_get_next_weekday(current_date, weekday) ==
    LET days_ahead == weekday - WeekdayOf(current_date)
    IN  PlusDays(current_date, IF days_ahead <= 0 THEN days_ahead + DaysPerWeek ELSE days_ahead)

\* Mutant: "next" always skips a week, whatever today's weekday is.
parse_relative_day_skip(phrase, base_dt) ==
    LET words == Split(Lower(phrase))
    IN  IF Len(words) = 2 /\ words[1] \in {<<"n", "e", "x", "t">>, <<"t", "h", "i", "s">>} /\ IsWeekdayName(words[2])
        THEN LET weekday == weekdays(words[2])
                 dt == _get_next_weekday(base_dt, weekday)
             IN  Some(IF words[1] = <<"n", "e", "x", "t">> THEN PlusDays(dt, DaysPerWeek) ELSE dt)
        ELSE None

_parse_relative_day(phrase, base_dt) ==
    LET words == Split(Lower(phrase))
    IN  IF Len(words) = 2 /\ words[1] \in {<<"n", "e", "x", "t">>, <<"t", "h", "i", "s">>} /\ IsWeekdayName(words[2])
        THEN LET weekday == weekdays(words[2])
                 dt == _get_next_weekday(base_dt, weekday)
             IN  Some(IF words[1] = <<"n", "e", "x", "t">> /\ WeekdayOf(base_dt) = weekday
                      THEN PlusDays(dt, DaysPerWeek)
                      ELSE dt)
        ELSE None

----------------------------------------------------------------------------
(* The clock *)

\* Times of day the clock is read at: midnight, the default time to the
\* second, half a minute past it, and the last second of the day.
ClockTimes == {0, 9 * SecondsPerHour, 9 * SecondsPerHour + 30, SecondsPerDay - 1}
Clocks == {Combine(d, t) : d \in 0..MaxDay, t \in ClockTimes}

\* Time passes.
TickWithin(clocks) ==
    /\ \E c \in clocks : c > clock /\ clock' = c
    /\ UNCHANGED <<last, prev, pc, arg, ret>>
\* Between two requests; a request is handled at one reading of the clock.
Tick == last = None /\ TickWithin(Clocks)

----------------------------------------------------------------------------
(* _parse_relative_day applied to one phrase and one base datetime *)

Qualifiers == {<<"n", "e", "x", "t">>, <<"t", "h", "i", "s">>}
Styles == {"lower", "upper", "title"}
Styled(s, style) == CASE style = "lower" -> s
                      [] style = "upper" -> Upper(s)
                      [] OTHER -> Title(s)
Separators == {<<" ">>, <<" ", "\t", " ">>}

\* Phrases that are not "<qualifier> <weekday>".
OtherPhrases == {<<"f", "r", "i", "d", "a", "y">>, <<"n", "e", "x", "t", " ", "w", "e", "e", "k">>, <<"t", "h", "i", "s", " ", "f", "r", "i", "d", "a", "y", " ", "m", "o", "r", "n", "i", "n", "g">>, <<"l", "a", "s", "t", " ", "m", "o", "n", "d", "a", "y">>,
                 <<"n", "e", "x", "t", "f", "r", "i", "d", "a", "y">>, <<>>}

RelArgs ==
    {[qual |-> q, target |-> t, phrase |-> Styled(q, st) \o sep \o Styled(day_name[t + 1], st),
      base |-> b] :
        q \in Qualifiers, t \in 0..(DaysPerWeek - 1), st \in Styles, sep \in Separators,
        b \in Clocks}
    \cup {[qual |-> <<>>, target |-> 0, phrase |-> p, base |-> b] :
            p \in OtherPhrases, b \in Clocks}

InitRel == /\ arg \in RelArgs
           /\ pc = "start"
           /\ ret = None
           /\ clock = arg.base
           /\ last = None /\ prev = None

CallParseRelativeDay ==
    /\ pc = "start"
    /\ ret' = _parse_relative_day(arg.phrase, arg.base)
    /\ pc' = "done"
    /\ UNCHANGED <<clock, last, prev, arg>>

NextRel == CallParseRelativeDay
SpecRel == InitRel /\ [][NextRel]_vars

IsRelativeCall == pc = "done" /\ arg.qual \in Qualifiers

\* C3: for "next <weekday>" and "this <weekday>" in any letter case,
\* _parse_relative_day returns a date on the named weekday, strictly after
\* the reference date.
C3_RelativeDayIsFutureTargetWeekday ==
    IsRelativeCall =>
        /\ ret # None
        /\ WeekdayOf(ret[1]) = arg.target
        /\ DateOf(ret[1]) > DateOf(arg.base)

C3_Witness ==
    /\ IsRelativeCall
    /\ arg.qual = <<"t", "h", "i", "s">>
    /\ arg.target = WeekdayOf(arg.base)
    /\ arg.phrase = <<"T", "H", "I", "S", " ", "\t", " ", "F", "R", "I", "D", "A", "Y">>
    /\ ret = Some(PlusDays(arg.base, DaysPerWeek))

\* The reference offset of C4, from (qualifier, reference weekday r, target t).
ReferenceOffset(qual, r, t) ==
    LET k == (t - r) % DaysPerWeek
        nearest == IF k = 0 THEN DaysPerWeek ELSE k
    IN  IF qual = <<"n", "e", "x", "t">> /\ r = t THEN nearest + DaysPerWeek ELSE nearest

----------------------------------------------------------------------------
(* _parse_time *)

\* str.strip()
RECURSIVE LStrip(_)
LStrip(s) == IF s # <<>> /\ IsSpace(Head(s)) THEN LStrip(Tail(s)) ELSE s
RECURSIVE RStrip(_)
RStrip(s) == IF s # <<>> /\ IsSpace(s[Len(s)]) THEN RStrip(SubSeq(s, 1, Len(s) - 1)) ELSE s
Strip(s) == RStrip(LStrip(s))

\* re.sub(r'^at\s+', '', s)
RemoveAtPrefix(s) ==
    IF Len(s) >= 3 /\ SubSeq(s, 1, 2) = <<"a", "t">> /\ IsSpace(s[3])
    THEN LStrip(SubSeq(s, 3, Len(s)))
    ELSE s

\* s.replace(' ', '')
RemoveSpaces(s) == SelectSeq(s, LAMBDA c : c # " ")

AllDigits(s) == \A i \in 1..Len(s) : IsDigit(s[i])
IsAmPm(s) == s \in {<<"a", "m">>, <<"p", "m">>}
\* the text before / after position i
Before(s, i) == SubSeq(s, 1, i - 1)
From(s, i) == SubSeq(s, i, Len(s))

\* time_formats: the three regular expressions, in order
\* r'^\d{1,2}(?:am|pm)$'
MatchHourAmPm(s) ==
    /\ Len(s) \in {3, 4}
    /\ AllDigits(Before(s, Len(s) - 1))
    /\ IsAmPm(From(s, Len(s) - 1))
\* r'^\d{1,2}:\d{2}(?:am|pm)$'
MatchHourMinuteAmPm(s) ==
    /\ Len(s) \in {6, 7}
    /\ AllDigits(Before(s, Len(s) - 4))
    /\ s[Len(s) - 4] = ":"
    /\ AllDigits(SubSeq(s, Len(s) - 3, Len(s) - 2))
    /\ IsAmPm(From(s, Len(s) - 1))
\* r'^\d{2}:\d{2}$'
MatchHourMinute24(s) ==
    /\ Len(s) = 5
    /\ AllDigits(Before(s, 3))
    /\ s[3] = ":"
    /\ AllDigits(From(s, 4))

time_formats == <<"%I%p", "%I:%M%p", "%H:%M">>
Matches(fmt, s) == CASE fmt = "%I%p" -> MatchHourAmPm(s)
                     [] fmt = "%I:%M%p" -> MatchHourMinuteAmPm(s)
                     [] OTHER -> MatchHourMinute24(s)

RECURSIVE Number(_)
Number(ds) == IF ds = <<>> THEN 0 ELSE 10 * Number(Before(ds, Len(ds))) + DigitVal(ds[Len(ds)])

\* Mutant: "pm" adds 12 to every hour, 12 included.
Hour24_NoNoon(hour12, ampm) ==
    IF ampm = <<"a", "m">> THEN (IF hour12 = 12 THEN 0 ELSE hour12) ELSE hour12 + 12

\* strptime's %I with %p: 12am is 0, 12pm is 12
Hour24(hour12, ampm) ==
    IF ampm = <<"a", "m">> THEN (IF hour12 = 12 THEN 0 ELSE hour12)
                     ELSE (IF hour12 = 12 THEN 12 ELSE hour12 + 12)

\* datetime.strptime(s, fmt) on a string the format's pattern matched: the
\* time of day, or ValueError when a field is out of its range
\* (%I: 1..12, %H: 0..23, %M: 0..59).
strptime(s, fmt) ==
    LET colon == IF Member(":", s) THEN IndexIn(":", s) ELSE 0
        ampm == From(s, Len(s) - 1)
        hourText == CASE fmt = "%I%p" -> Before(s, Len(s) - 1)
                      [] OTHER -> Before(s, colon)
        hour == Number(hourText)
        minute == IF fmt = "%I%p" THEN 0 ELSE Number(SubSeq(s, colon + 1, colon + 2))
        hourOk == IF fmt = "%H:%M" THEN hour <= 23 ELSE hour \in 1..12
        h24 == IF fmt = "%H:%M" THEN hour ELSE Hour24(hour, ampm)
    IN  IF hourOk /\ minute <= 59
        THEN [ValueError |-> FALSE, time |-> h24 * SecondsPerHour + minute * SecondsPerMinute]
        ELSE [ValueError |-> TRUE, time |-> 0]

\* What a call gives back: an exception, or an Optional value.
Returned(v) == [raised |-> FALSE, value |-> v]
Raised == [raised |-> TRUE, value |-> None]

\* the loop over time_formats, from format i on
RECURSIVE ParseTimeFrom(_, _)
ParseTimeFrom(s, i) ==
    IF i > Len(time_formats) THEN Returned(None)
    ELSE IF Matches(time_formats[i], s)
         THEN LET r == strptime(s, time_formats[i])
              IN  IF r.ValueError THEN ParseTimeFrom(s, i + 1)   \* except ValueError: continue
                  ELSE Returned(Some(r.time))
         ELSE ParseTimeFrom(s, i + 1)

\* Mutant: the ValueError of strptime is not caught.
RECURSIVE ParseTimeFrom_NoExcept(_, _)
ParseTimeFrom_NoExcept(s, i) ==
    IF i > Len(time_formats) THEN Returned(None)
    ELSE IF Matches(time_formats[i], s)
         THEN LET r == strptime(s, time_formats[i])
              IN  IF r.ValueError THEN Raised ELSE Returned(Some(r.time))
         ELSE ParseTimeFrom_NoExcept(s, i + 1)
parse_time_no_except(time_str) ==
    ParseTimeFrom_NoExcept(RemoveSpaces(RemoveAtPrefix(Strip(Lower(time_str)))), 1)

_parse_time(time_str) ==
    ParseTimeFrom(RemoveSpaces(RemoveAtPrefix(Strip(Lower(time_str)))), 1)

----------------------------------------------------------------------------
(* _parse_time applied to a formatted time of day *)

Hours == 0..23
Minutes == 0..59

TwoDigits(n) == <<Digits[(n \div 10) + 1], Digits[(n % 10) + 1]>>
Unpadded(n) == IF n < 10 THEN <<Digits[n + 1]>> ELSE TwoDigits(n)
Hour12(h) == IF h % 12 = 0 THEN 12 ELSE h % 12
AmPmOf(h) == IF h < 12 THEN <<"a", "m">> ELSE <<"p", "m">>

\* The ways a time of day is written: "3pm", "03PM" (strftime %I%p),
\* "3:30pm", "at 3:30 PM", "03:30PM" (strftime %I:%M%p), "15:00" (strftime %H:%M).
TimeStyles == {"3pm", "03PM", "3:30pm", "at 3:30 PM", "03:30PM", "15:00"}
NeedsZeroMinute(style) == style \in {"3pm", "03PM"}
FormatTime(h, m, style) ==
    CASE style = "3pm" -> Unpadded(Hour12(h)) \o AmPmOf(h)
      [] style = "03PM" -> TwoDigits(Hour12(h)) \o Upper(AmPmOf(h))
      [] style = "3:30pm" -> Unpadded(Hour12(h)) \o <<":">> \o TwoDigits(m) \o AmPmOf(h)
      [] style = "at 3:30 PM" ->
            <<"a", "t", " ">> \o Unpadded(Hour12(h)) \o <<":">> \o TwoDigits(m) \o <<" ">> \o Upper(AmPmOf(h))
      [] style = "03:30PM" -> TwoDigits(Hour12(h)) \o <<":">> \o TwoDigits(m) \o Upper(AmPmOf(h))
      [] OTHER -> TwoDigits(h) \o <<":">> \o TwoDigits(m)

TimeArgs ==
    {[hour |-> h, minute |-> m, style |-> st, text |-> FormatTime(h, m, st)] :
        h \in Hours, m \in Minutes, st \in TimeStyles}

InitTime == /\ arg \in {a \in TimeArgs : NeedsZeroMinute(a.style) => a.minute = 0}
            /\ pc = "start"
            /\ ret = None
            /\ clock = 0
            /\ last = None /\ prev = None

CallParseTime ==
    /\ pc = "start"
    /\ ret' = _parse_time(arg.text)
    /\ pc' = "done"
    /\ UNCHANGED <<clock, last, prev, arg>>

NextTime == CallParseTime
SpecTime == InitTime /\ [][NextTime]_vars

\* C8: a time of day written in any of the styles parses back to its own
\* hour and minute.
C8_ParseTimeRoundTrip ==
    pc = "done" =>
        ret = Returned(Some(arg.hour * SecondsPerHour + arg.minute * SecondsPerMinute))

\* 12am is 00:00 and 12:30 PM is 12:30.
C8_Witness ==
    /\ pc = "done"
    /\ \/ arg.text = <<"1", "2", "a", "m">> /\ ret = Returned(Some(0))
       \/ arg.text = <<"a", "t", " ", "1", "2", ":", "3", "0", " ", "P", "M">> /\ ret = Returned(Some(12 * SecondsPerHour + 30 * SecondsPerMinute))

----------------------------------------------------------------------------
(* _parse_with_base and normalize *)

KOLKATA == "Asia/Kolkata"
DEFAULT_TIME == <<"0", "9", ":", "0", "0">>

\* Mutant: the clock value of the call before is used again.
NowStale == IF last = None THEN clock ELSE last[1].at

\* now = datetime.now(KOLKATA)
Now == clock

\* dateparser.parse is a library outside the repository: its answers are
\* inputs of the call.  first_try is the answer under the first settings,
\* retry the answer with DATE_ORDER = 'DMY', asked only when the first is None.
_parse_with_base(phrase, base_dt, first_try, retry) ==
    IF ~Truthy(phrase) THEN None
    ELSE LET relative_dt == _parse_relative_day(phrase[1], base_dt)
         IN  IF relative_dt # None THEN relative_dt
             ELSE IF first_try # None THEN first_try
             ELSE retry

\* The time branch of normalize: the time of day to use, None when the
\* phrase is present and nothing parses it.
TimePart(time_phrase, fallback) ==
    IF Truthy(time_phrase)
    THEN LET parsed_time == _parse_time(time_phrase[1])
         IN  IF parsed_time.raised THEN Raised
             ELSE IF parsed_time.value # None THEN Returned(parsed_time.value)
             ELSE IF fallback # None THEN Returned(Some(TimeOf(fallback[1])))
             ELSE Returned(None)
    ELSE Returned(Some(strptime(DEFAULT_TIME, "%H:%M").time))

\* Mutant: "<=" for "<".
Rollover_Le(final_dt, now, date_phrase) ==
    IF final_dt <= now /\ Truthy(date_phrase) /\ ~Contains(Lower(date_phrase[1]), <<"n", "e", "x", "t">>)
    THEN PlusDays(final_dt, DaysPerWeek)
    ELSE final_dt

\* Mutant: a past result moves to the next day instead of the next week.
Rollover_OneDay(final_dt, now, date_phrase) ==
    IF final_dt < now /\ Truthy(date_phrase) /\ ~Contains(Lower(date_phrase[1]), <<"n", "e", "x", "t">>)
    THEN PlusDays(final_dt, 1)
    ELSE final_dt

\* "If the resulting datetime is in the past, assume next occurrence"
Rollover(final_dt, now, date_phrase) ==
    IF final_dt < now /\ Truthy(date_phrase) /\ ~Contains(Lower(date_phrase[1]), <<"n", "e", "x", "t">>)
    THEN PlusDays(final_dt, DaysPerWeek)
    ELSE final_dt

\* time.strftime("%H:%M")
strftime(time) ==
    TwoDigits(time \div SecondsPerHour) \o <<":">> \o TwoDigits((time % SecondsPerHour) \div SecondsPerMinute)

\* date.isoformat(): the text is one-to-one with the date, which stands for it.
isoformat(date) == date

\* The dicts normalize returns; a key that is not set reads as None (dict.get).
Clarification(message) ==
    [status |-> Some("needs_clarification"), message |-> Some(message),
     normalized |-> None, normalization_confidence |-> None]
NormalizedResult(final_dt) ==
    [status |-> None, message |-> None,
     normalized |-> Some([date |-> isoformat(DateOf(final_dt)),
                          time |-> strftime(TimeOf(final_dt)),
                          tz |-> KOLKATA]),
     normalization_confidence |-> Some("0.9")]

\* Mutant: the date is checked before the time.
normalize_date_first(date_phrase, time_phrase, now, first_try, retry, fallback) ==
    LET parsed_date == _parse_with_base(date_phrase, now, first_try, retry)
        time_part == TimePart(time_phrase, fallback)
    IN  IF parsed_date = None THEN Returned(Clarification("Invalid or missing date"))
        ELSE IF time_part.raised THEN Raised
        ELSE IF time_part.value = None THEN Returned(Clarification("Invalid time format"))
        ELSE Returned(NormalizedResult(
                Rollover(Combine(DateOf(parsed_date[1]), time_part.value[1]), now, date_phrase)))

\* normalize(date_phrase, time_phrase), with the clock value it read and the
\* answers dateparser gave it
normalize(date_phrase, time_phrase, now, first_try, retry, fallback) ==
    LET parsed_date == _parse_with_base(date_phrase, now, first_try, retry)
        time_part == TimePart(time_phrase, fallback)
    IN  IF time_part.raised THEN Raised
        ELSE IF time_part.value = None THEN Returned(Clarification("Invalid time format"))
        ELSE IF parsed_date = None THEN Returned(Clarification("Invalid or missing date"))
        ELSE Returned(NormalizedResult(
                Rollover(Combine(DateOf(parsed_date[1]), time_part.value[1]), now, date_phrase)))

----------------------------------------------------------------------------
(* apply_guardrails_and_build *)

\* "if not x:" on an Optional text held as a TLA+ string
Present(opttext) == opttext # None /\ opttext[1] # ""

NeedsClarification(message) ==
    [status |-> "needs_clarification", message |-> message, appointment |-> None]
Ok(appointment) == [status |-> "ok", message |-> None, appointment |-> Some(appointment)]

\* Mutant: the department is checked before the normalization status.
guardrails_department_first(ocr_result, entities_result, normalization_result) ==
    LET ents == entities_result.entities
    IN  IF ~Present(ents.department)
        THEN NeedsClarification(Some("Ambiguous or missing department"))
        ELSE IF normalization_result.status = Some("needs_clarification")
        THEN NeedsClarification(normalization_result.message)
        ELSE IF normalization_result.normalized = None
        THEN NeedsClarification(Some("Ambiguous or missing date/time"))
        ELSE Ok([department |-> ents.department[1],
                 date |-> normalization_result.normalized[1].date,
                 time |-> normalization_result.normalized[1].time,
                 tz |-> normalization_result.normalized[1].tz])

apply_guardrails_and_build(ocr_result, entities_result, normalization_result) ==
    LET ents == entities_result.entities
    IN  IF normalization_result.status = Some("needs_clarification")
        THEN NeedsClarification(normalization_result.message)
        ELSE IF ~Present(ents.department)
        THEN NeedsClarification(Some("Ambiguous or missing department"))
        ELSE IF normalization_result.normalized = None
        THEN NeedsClarification(Some("Ambiguous or missing date/time"))
        ELSE Ok([department |-> ents.department[1],
                 date |-> normalization_result.normalized[1].date,
                 time |-> normalization_result.normalized[1].time,
                 tz |-> normalization_result.normalized[1].tz])

----------------------------------------------------------------------------
(* The pipeline of parse_text and parse_image: normalize, then the guardrails *)

\* "this <weekday>" and "next <weekday>" phrases, with what they name
RelativeInputs ==
    {[phrase |-> <<"t", "h", "i", "s", " ", "f", "r", "i", "d", "a", "y">>, qual |-> <<"t", "h", "i", "s">>, target |-> 4],
     [phrase |-> <<"n", "e", "x", "t", " ", "f", "r", "i", "d", "a", "y">>, qual |-> <<"n", "e", "x", "t">>, target |-> 4],
     [phrase |-> <<"T", "h", "i", "s", " ", "M", "o", "n", "d", "a", "y">>, qual |-> <<"t", "h", "i", "s">>, target |-> 0],
     [phrase |-> <<"N", "E", "X", "T", " ", " ", "s", "u", "n", "d", "a", "y">>, qual |-> <<"n", "e", "x", "t">>, target |-> 6]}

\* Phrases left to dateparser; two hold "next", one inside a longer word.
GeneralPhrases == {<<"y", "e", "s", "t", "e", "r", "d", "a", "y">>, <<"1", "2", " ", "o", "c", "t", " ", "2", "0", "2", "0">>, <<"N", "e", "x", "t", " ", "w", "e", "e", "k">>, <<"3", " ", "m", "a", "y", " ", "n", "e", "x", "t", "y", "e", "a", "r">>}

DatePhrases ==
    {None, Some(<<>>)} \cup {Some(r.phrase) : r \in RelativeInputs}
    \cup {Some(p) : p \in GeneralPhrases}

\* Matched by _parse_time: "3pm", "12am", "3:30 PM", "15:00", "at 9 am".
\* Not matched, or matched with a field out of range: the last five.
TimePhrases ==
    {None, Some(<<>>), Some(<<"3", "p", "m">>), Some(<<"1", "2", "a", "m">>), Some(<<"3", ":", "3", "0", " ", "P", "M">>), Some(<<"1", "5", ":", "0", "0">>),
     Some(<<"a", "t", " ", "9", " ", "a", "m">>), Some(<<"1", "3", "p", "m">>), Some(<<"2", "5", ":", "0", "0">>), Some(<<"1", "2", ":", "6", "0", "p", "m">>), Some(<<"9", ":", "0", "0">>),
     Some(<<"w", "h", "e", "n", "e", "v", "e", "r">>)}

Departments == {None, Some(""), Some("Dentistry")}

\* Days, from today, of the dates dateparser answers with: more than a week
\* ago, yesterday, today, tomorrow; and the day its retry answers with.
ExtDateOffsets == {-(DaysPerWeek + 1), -1, 0, 1}
ExtRetryOffsets == {2}
\* Times of day of the datetimes dateparser answers a time phrase with.
ExtTimes == {0, 17 * SecondsPerHour + 45 * SecondsPerMinute + 10}

\* One run: what went in, what the clock showed, what the helpers found and
\* what came out.
Observe(date_phrase, time_phrase, department, first_try, retry, fallback) ==
    LET now == Now
        entities == [entities |-> [date_phrase |-> date_phrase, time_phrase |-> time_phrase,
                                   department |-> department]]
        ocr_result == [raw_text |-> "", confidence |-> "1.0"]
        normalization == normalize(date_phrase, time_phrase, now, first_try, retry, fallback)
    IN  [date_phrase |-> date_phrase, time_phrase |-> time_phrase, department |-> department,
         at |-> clock, first_try |-> first_try, retry |-> retry, fallback |-> fallback,
         relative |-> IF Truthy(date_phrase) THEN _parse_relative_day(date_phrase[1], now) ELSE None,
         parsed_time |-> IF Truthy(time_phrase) THEN _parse_time(time_phrase[1]).value ELSE None,
         raised |-> normalization.raised,
         normalization |-> IF normalization.raised THEN None ELSE Some(normalization.value),
         final |-> IF normalization.raised THEN None
                   ELSE Some(apply_guardrails_and_build(ocr_result, entities, normalization.value))]

\* dateparser is asked for a date only when the phrase is non-empty and no
\* relative weekday, and for a time only when _parse_time found none.
DateAsked(date_phrase) ==
    Truthy(date_phrase) /\ _parse_relative_day(date_phrase[1], Now) = None
TimeAsked(time_phrase) ==
    /\ Truthy(time_phrase)
    /\ ~_parse_time(time_phrase[1]).raised
    /\ _parse_time(time_phrase[1]).value = None

Pipeline(date_phrases, time_phrases, departments, date_offsets, retry_offsets, fallback_times) ==
    \E date_phrase \in date_phrases, time_phrase \in time_phrases, department \in departments :
      \E first_try \in IF DateAsked(date_phrase)
                       THEN {None} \cup {Some(PlusDays(Now, k)) : k \in date_offsets}
                       ELSE {None} :
        \E retry \in IF DateAsked(date_phrase) /\ first_try = None
                     THEN {None} \cup {Some(PlusDays(Now, k)) : k \in retry_offsets}
                     ELSE {None} :
          \E fallback \in IF TimeAsked(time_phrase)
                          THEN {None} \cup {Some(Combine(DateOf(clock), t)) : t \in fallback_times}
                          ELSE {None} :
            last' = Some(Observe(date_phrase, time_phrase, department, first_try, retry, fallback))

\* parse_text (and parse_image, once the OCR text is there), up to the result
parse_text ==
    /\ last = None
    /\ Pipeline(DatePhrases, TimePhrases, Departments, ExtDateOffsets, ExtRetryOffsets, ExtTimes)
    /\ UNCHANGED <<clock, prev, pc, arg, ret>>

Init == /\ clock \in Clocks
        /\ last = None /\ prev = None
        /\ pc = "idle" /\ arg = None /\ ret = None

\* return JSONResponse(content=final): the request's values are dropped
respond ==
    /\ last # None
    /\ last' = None
    /\ UNCHANGED <<clock, prev, pc, arg, ret>>

Next == Tick \/ parse_text \/ respond
Spec == Init /\ [][Next]_vars

----------------------------------------------------------------------------
(* What the claims say of one run *)

Ran == last # None
Run == last[1]

IsClarification(result, message) ==
    result = Some([status |-> "needs_clarification", message |-> Some(message), appointment |-> None])
NormalizationIs(message) == Run.normalization = Some(Clarification(message))
IsNormalized == Run.normalization # None /\ Run.normalization[1].normalized # None
Emitted == Run.normalization[1].normalized[1]

\* From the claims' words: which helpers found a time, a date.
TimeFails == Truthy(Run.time_phrase) /\ Run.parsed_time = None /\ Run.fallback = None
DateFails ==
    \/ ~Truthy(Run.date_phrase)
    \/ Run.relative = None /\ Run.first_try = None /\ Run.retry = None

\* C1: normalize reports an unparsed time first, then an unresolved or
\* missing date, and else a normalized record; an absent time phrase never
\* gives "Invalid time format".
C1_NormalizeOrder ==
    Ran =>
        /\ ~Run.raised
        /\ TimeFails => NormalizationIs("Invalid time format")
        /\ ~TimeFails /\ DateFails => NormalizationIs("Invalid or missing date")
        /\ ~TimeFails /\ ~DateFails => IsNormalized /\ Run.normalization[1].status = None
        /\ ~Truthy(Run.time_phrase) => ~NormalizationIs("Invalid time format")

\* Date and time both invalid: the time error is the one reported.
C1_Witness ==
    /\ Ran
    /\ Run.date_phrase = Some(<<"y", "e", "s", "t", "e", "r", "d", "a", "y">>) /\ Run.first_try = None /\ Run.retry = None
    /\ Run.time_phrase = Some(<<"w", "h", "e", "n", "e", "v", "e", "r">>) /\ Run.fallback = None
    /\ NormalizationIs("Invalid time format")

\* The date and the time of day the helpers resolved, and their combination.
ResolvedDate ==
    DateOf((IF Run.relative # None THEN Run.relative
            ELSE IF Run.first_try # None THEN Run.first_try ELSE Run.retry)[1])
ResolvedTime ==
    IF ~Truthy(Run.time_phrase) THEN 9 * SecondsPerHour
    ELSE IF Run.parsed_time # None THEN Run.parsed_time[1]
    ELSE TimeOf(Run.fallback[1])
Combined == ResolvedDate * SecondsPerDay + ResolvedTime
HasNext == Contains(Lower(Run.date_phrase[1]), <<"n", "e", "x", "t">>)

\* The instant a normalized record names, to the minute it is written to.
EmittedInstant ==
    Emitted.date * SecondsPerDay
    + Number(SubSeq(Emitted.time, 1, 2)) * SecondsPerHour
    + Number(SubSeq(Emitted.time, 4, 5)) * SecondsPerMinute
ToMinute(dt) == dt - (dt % SecondsPerMinute)

\* C5: the record names the combined instant plus 7 days when that instant
\* is before the clock value and the phrase holds no "next" in any case,
\* and the combined instant itself otherwise; one correction at most.
C5_RolloverOnce ==
    Ran /\ IsNormalized =>
        /\ Len(Emitted.time) = 5 /\ Emitted.time[3] = ":"
        /\ EmittedInstant = ToMinute(IF Combined < Run.at /\ ~HasNext
                                     THEN Combined + DaysPerWeek * SecondsPerDay
                                     ELSE Combined)

\* Rolled over once and still before the clock value.
C5_Witness ==
    /\ Ran /\ IsNormalized
    /\ Combined < Run.at /\ ~HasNext
    /\ EmittedInstant = Combined + DaysPerWeek * SecondsPerDay
    /\ EmittedInstant < Run.at

ResolvesToYesterday ==
    /\ Ran /\ Truthy(Run.date_phrase) /\ ~HasNext
    /\ ~DateFails /\ ResolvedDate = DateOf(Run.at) - 1
    /\ ~Truthy(Run.time_phrase)

\* C6: a phrase without "next" that resolves to yesterday, with no time
\* phrase, gives the date 6 days after today at "09:00", not in the past.
C6_YesterdayRollsToNextWeek ==
    ResolvesToYesterday =>
        /\ IsNormalized
        /\ Emitted.date = DateOf(Run.at) + 6
        /\ Emitted.time = <<"0", "9", ":", "0", "0">>
        /\ EmittedInstant >= Run.at

C6_Witness ==
    /\ ResolvesToYesterday
    /\ Run.date_phrase = Some(<<"y", "e", "s", "t", "e", "r", "d", "a", "y">>)
    /\ TimeOf(Run.at) = SecondsPerDay - 1
    /\ IsNormalized /\ Emitted.date = DateOf(Run.at) + 6

ClarificationMessages ==
    {"Invalid or missing date", "Invalid time format", "Ambiguous or missing department"}

\* C9: every run ends without an exception, in "ok" with an appointment or
\* in "needs_clarification" with one of the three messages.
C9_AlwaysWellFormed ==
    Ran =>
        /\ ~Run.raised
        /\ Run.final # None
        /\ \/ /\ Run.final[1].status = "ok"
              /\ Run.final[1].appointment # None
              /\ Run.final[1].message = None
           \/ \E m \in ClarificationMessages : IsClarification(Run.final, m)

\* A time that matches a pattern with the hour out of range, and no fallback.
C9_Witness ==
    /\ Ran
    /\ Run.time_phrase \in {Some(<<"1", "3", "p", "m">>), Some(<<"2", "5", ":", "0", "0">>)}
    /\ Run.fallback = None
    /\ ~Run.raised
    /\ IsClarification(Run.final, "Invalid time format")

IsRelativeRun ==
    Ran /\ \E r \in RelativeInputs : Run.date_phrase = Some(r.phrase)
Named == CHOOSE r \in RelativeInputs : Run.date_phrase = Some(r.phrase)

\* C10: for "this <weekday>" and "next <weekday>" the rollover never fires:
\* the combined instant is not before the clock value, and the date given
\* is the one _parse_relative_day returned, on the named weekday, 1..7 days
\* ("this") or 1..14 days ("next") after today.
C10_RelativePhraseNeverRollsOver ==
    IsRelativeRun /\ ~TimeFails =>
        /\ Run.relative # None
        /\ IsNormalized
        /\ Combined >= Run.at
        /\ Emitted.date = DateOf(Run.relative[1])
        /\ Emitted.date % DaysPerWeek = Named.target
        /\ Emitted.date - DateOf(Run.at) \in
              1..(IF Named.qual = <<"t", "h", "i", "s">> THEN DaysPerWeek ELSE 2 * DaysPerWeek)

\* "This Monday" asked on a Monday, late in the day, for midnight.
C10_Witness ==
    /\ IsRelativeRun /\ ~TimeFails
    /\ Run.date_phrase = Some(<<"T", "h", "i", "s", " ", "M", "o", "n", "d", "a", "y">>)
    /\ WeekdayOf(Run.at) = 0 /\ TimeOf(Run.at) = SecondsPerDay - 1
    /\ Run.time_phrase = Some(<<"1", "2", "a", "m">>)
    /\ IsNormalized /\ Emitted.date = DateOf(Run.at) + DaysPerWeek

----------------------------------------------------------------------------
(* normalize called again and again with the same arguments *)

\* The clock at half a minute past nine on each day.
DetClocks == {c \in Clocks : TimeOf(c) = 9 * SecondsPerHour + 30}
DetDatePhrases == {None, Some(<<"t", "h", "i", "s", " ", "f", "r", "i", "d", "a", "y">>), Some(<<"y", "e", "s", "t", "e", "r", "d", "a", "y">>)}
DetTimePhrases == {None, Some(<<"w", "h", "e", "n", "e", "v", "e", "r">>)}

InitDet == /\ clock \in DetClocks
           /\ last = None /\ prev = None
           /\ pc = "idle" /\ arg = None /\ ret = None

\* The first call takes any arguments, each later call the same ones.
normalize_again ==
    /\ Pipeline(IF last = None THEN DetDatePhrases ELSE {last[1].date_phrase},
                IF last = None THEN DetTimePhrases ELSE {last[1].time_phrase},
                {Some("Dentistry")}, {-1}, {}, {17 * SecondsPerHour + 45 * SecondsPerMinute + 10})
    /\ prev' = last
    /\ UNCHANGED <<clock, pc, arg, ret>>

NextDet == TickWithin(DetClocks) \/ normalize_again
SpecDet == InitDet /\ [][NextDet]_vars

TwoCalls == prev # None /\ last # None
SameAnswers ==
    /\ prev[1].first_try = last[1].first_try
    /\ prev[1].retry = last[1].retry
    /\ prev[1].fallback = last[1].fallback

----------------------------------------------------------------------------
(* apply_guardrails_and_build applied to one pair of results *)

GuardDepartments == {None, Some(""), Some("Dentistry"), Some("ENT")}
GuardNormalizations ==
    {Clarification(m) : m \in {"Invalid time format", "Invalid or missing date", "try again"}}
    \cup {NormalizedResult(Combine(d, t)) : d \in 0..MaxDay, t \in ClockTimes}
    \cup {[status |-> None, message |-> None, normalized |-> None,
           normalization_confidence |-> None]}

InitGuard ==
    /\ arg \in {[entities |-> [entities |-> [date_phrase |-> None, time_phrase |-> None,
                                             department |-> d]],
                 normalization |-> n] : d \in GuardDepartments, n \in GuardNormalizations}
    /\ pc = "start"
    /\ ret = None
    /\ clock = 0
    /\ last = None /\ prev = None

CallGuardrails ==
    /\ pc = "start"
    /\ ret' = Some(apply_guardrails_and_build([raw_text |-> "", confidence |-> "1.0"],
                                              arg.entities, arg.normalization))
    /\ pc' = "done"
    /\ UNCHANGED <<clock, last, prev, arg>>

NextGuard == CallGuardrails
SpecGuard == InitGuard /\ [][NextGuard]_vars

GuardDepartment == arg.entities.entities.department
GuardIsNormalized == arg.normalization.status = None /\ arg.normalization.normalized # None
GuardIsClarification == arg.normalization.status = Some("needs_clarification")

\* C2: "ok" exactly when the outcome is normalized and the department is
\* present; a clarification keeps its message; a normalized outcome without
\* department asks for the department; "ok" carries the department and the
\* date, time and tz of the outcome.
C2_GuardrailDecision ==
    pc = "done" =>
        /\ ret[1].status = "ok" <=> GuardIsNormalized /\ Present(GuardDepartment)
        /\ GuardIsClarification => ret[1] = NeedsClarification(arg.normalization.message)
        /\ GuardIsNormalized /\ ~Present(GuardDepartment) =>
              ret[1] = NeedsClarification(Some("Ambiguous or missing department"))
        /\ ret[1].status = "ok" =>
              ret[1].appointment =
                  Some([department |-> GuardDepartment[1],
                        date |-> arg.normalization.normalized[1].date,
                        time |-> arg.normalization.normalized[1].time,
                        tz |-> arg.normalization.normalized[1].tz])

\* A clarification and no department: the clarification's message is kept.
C2_Witness ==
    /\ pc = "done"
    /\ GuardIsClarification /\ GuardDepartment = None
    /\ ret[1].message = Some("Invalid time format")

=============================================================================
